---- MODULE Spec2Model ----
(***************************************************************************)
(* A model of the Bloom filter of bloom.go: the BloomFilter struct, its    *)
(* constructors, Add / Test / TestAndAdd / ClearAll, and the binary, gob   *)
(* and JSON encodings.                                                     *)
(*                                                                         *)
(* Widths are scaled: a uint32 half of the FNV digest is HashBits wide, a  *)
(* uint64 (and the uint of a 64-bit build) is twice that, and the uint of  *)
(* a 32-bit build (GOARCH=386) is HashBits wide. The truncated FNV-1 hash  *)
(* is the low 2*HashBits bits of the real 64-bit digest, because multiply  *)
(* and xor commute with truncation to the low bits.                        *)
(***************************************************************************)
EXTENDS Integers, Sequences, FiniteSets, TLC

VARIABLES arch, flt, added, origin, shared, wire, ret, thr

vars == <<arch, flt, added, origin, shared, wire, ret, thr>>

\* ------------------------------------------------------------------ bounds

\* New is called with m in 0..MaxM and k in 0..MaxK.
MaxM == 3
MaxK == 2

\* The keys of a run: byte strings.
Keys == {<<>>, <<1>>, <<2>>}

\* The two filter objects of a run: f is built and filled, g is a second
\* filter (a decode destination).
Ids == {"f", "g"}

\* --------------------------------------------------------------- integers

RECURSIVE Pow2(_)
Pow2(n) == IF n = 0 THEN 1 ELSE 2 * Pow2(n - 1)

RECURSIVE Xor(_, _)
Xor(x, y) ==
  IF x = 0 THEN y
  ELSE IF y = 0 THEN x
  ELSE (((x % 2) + (y % 2)) % 2) + 2 * Xor(x \div 2, y \div 2)

Max(x, y) == IF x >= y THEN x ELSE y

\* Width of each of the two halves of the digest (uint32 in the source).
HashBits == 8
HashMod == Pow2(HashBits)
\* Width of the digest (uint64 in the source).
DigestMod == Pow2(2 * HashBits)

Archs == {"386", "amd64"}

\* uint is as wide as a digest half on a 32-bit build, as the digest on a
\* 64-bit build.
UintMod == IF arch = "386" THEN HashMod ELSE DigestMod

\* ------------------------------------------------------------------- fnv

\* hash/fnv's offset basis and prime, truncated to the digest width.
FnvOffset == 8997
FnvPrime == 435

\* hash.Hash64.Write: FNV-1, multiply then xor, byte by byte.
RECURSIVE HasherWrite(_, _)
HasherWrite(h, data) ==
  IF data = <<>> THEN h
  ELSE HasherWrite(Xor((h * FnvPrime) % DigestMod, Head(data)), Tail(data))

\* A hasher is <<>> (a nil hash.Hash64) or <<h>>, h its running state.
NilHasher == <<>>
NewHasher == <<FnvOffset>>

\* hash.Hash64.Reset: back to the offset basis.
HasherReset(h) == <<FnvOffset>>

\* ----------------------------------------------------------------- bitset

\* A *bitset.BitSet: nil, or a length and the set of indices that are set.
NilBitSet == [nil |-> TRUE, length |-> 0, bits |-> {}]
BitSetNew(length) == [nil |-> FALSE, length |-> length, bits |-> {}]

BitSetTest(b, i) == i < b.length /\ i \in b.bits

\* Set extends the bit set when i is beyond its length.
BitSetSet(b, i) ==
  [b EXCEPT !.length = Max(b.length, i + 1), !.bits = b.bits \cup {i}]

BitSetClearAll(b) == [b EXCEPT !.bits = {}]

\* ----------------------------------------------------------------- filter

\* The zero value of the struct (var g BloomFilter).
ZeroFilter ==
  [m |-> 0, k |-> 0, b |-> NilBitSet, locBuff |-> <<>>, present |-> FALSE,
   hasher |-> NilHasher]

Cap(f) == f.m

K(f) == f.k

\* make([]uint, k) panics when k does not fit the signed int of the build.
MakeOk(k) == 2 * k < UintMod

NewFilter(m, k) ==
  [m |-> m, k |-> k, b |-> BitSetNew(m), locBuff |-> [i \in 1..k |-> 0],
   present |-> FALSE, hasher |-> NewHasher]

\* Mutant of BaseHashes: Reset is left out, so Write goes on from the
\* digest of the key before.
BaseHashesNoReset(f, data) ==
  LET sum == HasherWrite(f.hasher[1], data)
  IN  [hasher |-> <<sum>>, a |-> sum % HashMod, b |-> sum \div HashMod]

\* base_hashes: Reset, Write, Sum; a is the lower half, b the upper half.
BaseHashes(f, data) ==
  LET sum == HasherWrite(HasherReset(f.hasher)[1], data)
  IN  [hasher |-> <<sum>>, a |-> sum % HashMod, b |-> sum \div HashMod]

\* Mutant of LocationsLoop: the index is not reduced modulo m.
RECURSIVE LocationsLoopNoMod(_, _, _, _)
LocationsLoopNoMod(f, ua, ub, i) ==
  IF i >= f.k THEN [f |-> f, panic |-> FALSE]
  ELSE IF i >= Len(f.locBuff) \/ f.m = 0 THEN [f |-> f, panic |-> TRUE]
  ELSE LocationsLoopNoMod(
         [f EXCEPT !.locBuff[i + 1] = (ua + ub * i) % UintMod],
         ua, ub, i + 1)

\* The loop of locations from index i on: locBuff[i] = (ua + ub*i) % m in
\* uint arithmetic. It panics on an index beyond locBuff and on m = 0.
RECURSIVE LocationsLoop(_, _, _, _)
LocationsLoop(f, ua, ub, i) ==
  IF i >= f.k THEN [f |-> f, panic |-> FALSE]
  ELSE IF i >= Len(f.locBuff) \/ f.m = 0 THEN [f |-> f, panic |-> TRUE]
  ELSE LocationsLoop(
         [f EXCEPT !.locBuff[i + 1] = ((ua + ub * i) % UintMod) % f.m],
         ua, ub, i + 1)

Locations(f, data) ==
  IF f.hasher = NilHasher THEN [f |-> f, panic |-> TRUE]
  ELSE LET h == BaseHashes(f, data)
       IN  LocationsLoop([f EXCEPT !.hasher = h.hasher], h.a, h.b, 0)

\* Mutant of AddLoop: the loop stops one location short (i < f.k - 1).
RECURSIVE AddLoopOffByOne(_, _)
AddLoopOffByOne(f, i) ==
  IF i + 1 >= f.k THEN [f |-> f, panic |-> FALSE]
  ELSE IF f.b.nil THEN [f |-> f, panic |-> TRUE]
  ELSE AddLoopOffByOne([f EXCEPT !.b = BitSetSet(f.b, f.locBuff[i + 1])], i + 1)

RECURSIVE AddLoop(_, _)
AddLoop(f, i) ==
  IF i >= f.k THEN [f |-> f, panic |-> FALSE]
  ELSE IF f.b.nil THEN [f |-> f, panic |-> TRUE]
  ELSE AddLoop([f EXCEPT !.b = BitSetSet(f.b, f.locBuff[i + 1])], i + 1)

\* Add: the filter after the call, and whether the call panicked.
AddCall(f, data) ==
  LET l == Locations(f, data)
  IN  IF l.panic THEN l ELSE AddLoop(l.f, 0)

RECURSIVE TestLoop(_, _)
TestLoop(f, i) ==
  IF i >= f.k THEN [val |-> TRUE, panic |-> FALSE]
  ELSE IF f.b.nil THEN [val |-> FALSE, panic |-> TRUE]
  ELSE IF ~BitSetTest(f.b, f.locBuff[i + 1]) THEN [val |-> FALSE, panic |-> FALSE]
  ELSE TestLoop(f, i + 1)

\* Test: the filter after the call (hasher and locBuff are written), the
\* value returned, and whether the call panicked.
TestCall(f, data) ==
  LET l == Locations(f, data)
  IN  IF l.panic THEN [f |-> l.f, val |-> FALSE, panic |-> TRUE]
      ELSE LET t == TestLoop(l.f, 0)
           IN  [f |-> l.f, val |-> t.val, panic |-> t.panic]

\* Mutant of TestAndAddLoop: it returns at the first clear bit, leaving
\* that bit and the later ones unset.
RECURSIVE TestAndAddLoopEarlyReturn(_, _)
TestAndAddLoopEarlyReturn(f, i) ==
  IF i >= f.k THEN [f |-> f, panic |-> FALSE]
  ELSE IF f.b.nil THEN [f |-> f, panic |-> TRUE]
  ELSE LET loc == f.locBuff[i + 1]
       IN  IF ~BitSetTest(f.b, loc)
           THEN [f |-> [f EXCEPT !.present = FALSE], panic |-> FALSE]
           ELSE TestAndAddLoopEarlyReturn([f EXCEPT !.b = BitSetSet(f.b, loc)], i + 1)

RECURSIVE TestAndAddLoop(_, _)
TestAndAddLoop(f, i) ==
  IF i >= f.k THEN [f |-> f, panic |-> FALSE]
  ELSE IF f.b.nil THEN [f |-> f, panic |-> TRUE]
  ELSE LET loc == f.locBuff[i + 1]
           g == IF ~BitSetTest(f.b, loc) THEN [f EXCEPT !.present = FALSE] ELSE f
       IN  TestAndAddLoop([g EXCEPT !.b = BitSetSet(g.b, loc)], i + 1)

TestAndAddCall(f, data) ==
  LET l == Locations(f, data)
  IN  IF l.panic THEN [f |-> l.f, val |-> FALSE, panic |-> TRUE]
      ELSE LET r == TestAndAddLoop([l.f EXCEPT !.present = TRUE], 0)
           IN  [f |-> r.f, val |-> r.f.present, panic |-> r.panic]

ClearAllCall(f) ==
  IF f.b.nil THEN [f |-> f, panic |-> TRUE]
  ELSE [f |-> [f EXCEPT !.b = BitSetClearAll(f.b)], panic |-> FALSE]

\* ------------------------------------------------------------------ merge

\* The bitwise OR of the bit array y into x.
BitSetInPlaceUnion(x, y) ==
  [x EXCEPT !.length = Max(x.length, y.length), !.bits = x.bits \cup y.bits]

\* Mutant of MergeCall: only m is compared.
MergeCallComparesMOnly(f, g) ==
  IF f.m # g.m THEN [f |-> f, err |-> "ParameterMismatch"]
  ELSE [f |-> [f EXCEPT !.b = BitSetInPlaceUnion(f.b, g.b)], err |-> "nil"]

\* Mutant of MergeCall: the bit arrays are intersected.
MergeCallIntersects(f, g) ==
  IF f.m # g.m \/ f.k # g.k THEN [f |-> f, err |-> "ParameterMismatch"]
  ELSE [f |-> [f EXCEPT !.b.bits = f.b.bits \cap g.b.bits], err |-> "nil"]

\* f.Merge(g): an error when m or k differ, else g's bit array is ORed into
\* f's.
MergeCall(f, g) ==
  IF f.m # g.m \/ f.k # g.k THEN [f |-> f, err |-> "ParameterMismatch"]
  ELSE [f |-> [f EXCEPT !.b = BitSetInPlaceUnion(f.b, g.b)], err |-> "nil"]

\* ------------------------------------------------------------------- copy

\* A clone of the bit array: a bit set of its own with the same bits.
BitSetClone(b) == [nil |-> b.nil, length |-> b.length, bits |-> b.bits]

\* Mutant of CopyCall: the struct is copied, its bit set is shared.
CopyCallShallow(f) == [f |-> f, shares |-> TRUE]

\* f.Copy(): a new filter with f's m and k and a clone of its bit array.
\* shares tells whether the new filter's bit set is f's own.
CopyCall(f) ==
  [f |-> [NewFilter(f.m, f.k) EXCEPT !.b = BitSetClone(f.b)], shares |-> FALSE]

\* -------------------------------------------------------------- estimator

\* The expected item counts n given to NewWithEstimates are 0..MaxN.
MaxN == 2
\* The false-positive rates given to it, in percent (p = pct / 100).
Pcts == {10, 50, 90}

\* Fixed-point values, in millionths, of the float64 terms of the formulas.
Micro == 1000000
\* math.Log(2)
Log2Micro == 693147
\* -1 * math.Log(p) / math.Pow(math.Log(2), 2)
NegLogPOverLog2Sq(pct) ==
  CASE pct = 10 -> 4792529
    [] pct = 50 -> 1442695
    [] pct = 90 -> 219294

CeilDiv(x, y) == (x + y - 1) \div y

\* uint(NaN) is implementation-dependent: 0 on some builds, the top bit of
\* the word on others.
NaNToUint == {0, UintMod \div 2}

\* estimateParameters: the set of (m, k) pairs a build can return. uint()
\* truncates; for n = 0 the quotient m/n is NaN.
EstimateParameters(n, pct) ==
  LET m == (n * NegLogPOverLog2Sq(pct)) \div Micro
  IN  IF n = 0 THEN {<<m, k>> : k \in NaNToUint}
      ELSE {<<m, CeilDiv(Log2Micro * m, Micro * n)>>}

\* ------------------------------------------------------------ byte streams

\* binary.BigEndian: v in n bytes, most significant first.
RECURSIVE BEBytes(_, _)
BEBytes(v, n) ==
  IF n = 0 THEN <<>> ELSE Append(BEBytes(v \div 256, n - 1), v % 256)

RECURSIVE BEValue(_)
BEValue(bs) ==
  IF bs = <<>> THEN 0
  ELSE 256 * BEValue(SubSeq(bs, 1, Len(bs) - 1)) + bs[Len(bs)]

\* binary.Size(uint64(0))
Uint64Size == 8

\* binary.Read of one uint64 from the bytes left: io.ReadFull gives io.EOF
\* when nothing is left and io.ErrUnexpectedEOF when the bytes run out.
ReadUint64(rest) ==
  IF Len(rest) = 0 THEN [err |-> "EOF", v |-> 0, rest |-> rest]
  ELSE IF Len(rest) < Uint64Size THEN [err |-> "ErrUnexpectedEOF", v |-> 0, rest |-> <<>>]
  ELSE [err |-> "nil", v |-> BEValue(SubSeq(rest, 1, Uint64Size)),
        rest |-> SubSeq(rest, Uint64Size + 1, Len(rest))]

\* The bit set's words are 64 bits wide.
WordSize == 64
WordsNeeded(length) == (length + (WordSize - 1)) \div WordSize

\* The byte holding bits base .. base+7, from bit t on.
RECURSIVE ByteOfBits(_, _, _)
ByteOfBits(bits, base, t) ==
  IF t = 8 THEN 0
  ELSE (IF base + t \in bits THEN Pow2(t) ELSE 0) + ByteOfBits(bits, base, t + 1)

\* Word w of the bit set as a big-endian uint64.
WordBytes(bits, w) ==
  [i \in 1..Uint64Size |-> ByteOfBits(bits, WordSize * w + 8 * (Uint64Size - i), 0)]

RECURSIVE WordsBytes(_, _, _)
WordsBytes(bits, w, n) ==
  IF w >= n THEN <<>> ELSE WordBytes(bits, w) \o WordsBytes(bits, w + 1, n)

\* BitSet.WriteTo: the length, then the words; BinaryStorageSize bytes.
BitSetWriteTo(b) ==
  BEBytes(b.length, Uint64Size) \o WordsBytes(b.bits, 0, WordsNeeded(b.length))

\* The indices set in n words stored in bs.
BitsOfWords(bs, n) ==
  {idx \in 0..(WordSize * n - 1) :
     LET w == idx \div WordSize
         i == Uint64Size - ((idx % WordSize) \div 8)
     IN  (bs[Uint64Size * w + i] \div Pow2(idx % 8)) % 2 = 1}

\* BitSet.ReadFrom: the length, then the words. A stream that ends early is
\* io.ErrUnexpectedEOF.
BitSetReadFrom(rest) ==
  LET hdr == ReadUint64(rest)
      n == WordsNeeded(hdr.v)
  IN  IF hdr.err # "nil" \/ Len(hdr.rest) < Uint64Size * n
      THEN [err |-> "ErrUnexpectedEOF", b |-> NilBitSet, n |-> 0]
      ELSE [err |-> "nil",
            b |-> [nil |-> FALSE, length |-> hdr.v, bits |-> BitsOfWords(hdr.rest, n)],
            n |-> Uint64Size + Uint64Size * n]

\* ----------------------------------------------- EstimateFalsePositiveRate

\* binary.BigEndian.PutUint32(n1, v)
PutUint32(v) == BEBytes(v, 4)

\* uint32(v) of a uint.
ToUint32(v) == v % HashMod

\* for i := uint32(0); i < uint32(n); i++ { f.Add(n1) }, from i on.
RECURSIVE FillLoop(_, _, _)
FillLoop(f, n, i) ==
  IF i >= ToUint32(n) THEN [f |-> f, panic |-> FALSE]
  ELSE LET a == AddCall(f, PutUint32(i))
       IN  IF a.panic THEN [f |-> a.f, panic |-> TRUE]
           ELSE FillLoop(a.f, n, i + 1)

\* for i := uint32(0); i < rounds; i++ { if f.Test(n1) { fp++ } }, from i on
\* with fp positives so far.
RECURSIVE ProbeLoop(_, _, _, _, _)
ProbeLoop(f, n, rounds, i, fp) ==
  IF i >= rounds THEN [f |-> f, fp |-> fp, panic |-> FALSE]
  ELSE LET t == TestCall(f, PutUint32((i + ToUint32(n) + 1) % HashMod))
       IN  IF t.panic THEN [f |-> t.f, fp |-> fp, panic |-> TRUE]
           ELSE ProbeLoop(t.f, n, rounds, i + 1, IF t.val THEN fp + 1 ELSE fp)

\* fp_rate = float64(fp) / float64(100): the denominator of the rate.
RateDen == 100

\* fp_rate = float64(fp) / float64(100), as the fraction <<numerator,
\* denominator>>.
FpRate(fp) == <<fp, RateDen>>

\* Mutant of EstimateFalsePositiveRateCall: the ClearAll at the end is
\* left out.
EstimateFalsePositiveRateCallKeepsBits(f, n) ==
  LET rounds == ToUint32((n * 2) % UintMod)
      c == ClearAllCall(f)
      a == FillLoop(c.f, n, 0)
      t == ProbeLoop(a.f, n, rounds, 0, 0)
  IN  IF c.panic THEN [f |-> c.f, fp |-> 0, rounds |-> rounds, panic |-> TRUE]
      ELSE IF a.panic THEN [f |-> a.f, fp |-> 0, rounds |-> rounds, panic |-> TRUE]
      ELSE IF t.panic THEN [f |-> t.f, fp |-> t.fp, rounds |-> rounds, panic |-> TRUE]
      ELSE [f |-> t.f, fp |-> t.fp, rounds |-> rounds, panic |-> FALSE]

\* EstimateFalsePositiveRate(n): ClearAll, n keys added, rounds keys tested,
\* ClearAll. The rate returned is fp / 100.
EstimateFalsePositiveRateCall(f, n) ==
  LET rounds == ToUint32((n * 2) % UintMod)
      c == ClearAllCall(f)
      a == FillLoop(c.f, n, 0)
      t == ProbeLoop(a.f, n, rounds, 0, 0)
  IN  IF c.panic THEN [f |-> c.f, fp |-> 0, rounds |-> rounds, panic |-> TRUE]
      ELSE IF a.panic THEN [f |-> a.f, fp |-> 0, rounds |-> rounds, panic |-> TRUE]
      ELSE IF t.panic THEN [f |-> t.f, fp |-> t.fp, rounds |-> rounds, panic |-> TRUE]
      ELSE [f |-> ClearAllCall(t.f).f, fp |-> t.fp, rounds |-> rounds, panic |-> FALSE]

\* ----------------------------------------------------------- binary / gob

\* Mutant of WriteToCall: the count leaves out the 16 bytes of m and k.
WriteToCallNoHeader(f) ==
  IF f.b.nil THEN [bytes |-> <<>>, n |-> 0, err |-> "panic"]
  ELSE LET bs == BitSetWriteTo(f.b)
       IN  [bytes |-> BEBytes(f.m, Uint64Size) \o BEBytes(f.k, Uint64Size) \o bs,
            n |-> Len(bs), err |-> "nil"]

\* WriteTo into a writer that never fails: the bytes appended and the
\* count returned.
WriteToCall(f) ==
  IF f.b.nil THEN [bytes |-> <<>>, n |-> 0, err |-> "panic"]
  ELSE LET bs == BitSetWriteTo(f.b)
       IN  [bytes |-> BEBytes(f.m, Uint64Size) \o BEBytes(f.k, Uint64Size) \o bs,
            n |-> Len(bs) + 2 * Uint64Size, err |-> "nil"]

\* uint(v) of a uint64.
ToUint(v) == v % UintMod

\* Mutant of ReadFromCall: each field is stored as soon as it is read.
ReadFromCallEager(f, input) ==
  LET rm == ReadUint64(input)
      rk == ReadUint64(rm.rest)
      rb == BitSetReadFrom(rk.rest)
      fm == [f EXCEPT !.m = ToUint(rm.v)]
      fk == [fm EXCEPT !.k = ToUint(rk.v)]
  IN  IF rm.err # "nil" THEN [f |-> f, n |-> 0, err |-> rm.err]
      ELSE IF rk.err # "nil" THEN [f |-> fm, n |-> 0, err |-> rk.err]
      ELSE IF rb.err # "nil" THEN [f |-> fk, n |-> 0, err |-> rb.err]
      ELSE [f |-> [fk EXCEPT !.b = rb.b, !.hasher = NewHasher],
            n |-> rb.n + 2 * Uint64Size, err |-> "nil"]

\* ReadFrom from a reader over the bytes of input.
ReadFromCall(f, input) ==
  LET rm == ReadUint64(input)
      rk == ReadUint64(rm.rest)
      rb == BitSetReadFrom(rk.rest)
  IN  IF rm.err # "nil" THEN [f |-> f, n |-> 0, err |-> rm.err]
      ELSE IF rk.err # "nil" THEN [f |-> f, n |-> 0, err |-> rk.err]
      ELSE IF rb.err # "nil" THEN [f |-> f, n |-> 0, err |-> rb.err]
      ELSE [f |-> [f EXCEPT !.m = ToUint(rm.v), !.k = ToUint(rk.v), !.b = rb.b,
                            !.hasher = NewHasher],
            n |-> rb.n + 2 * Uint64Size, err |-> "nil"]

GobEncodeCall(f) ==
  LET w == WriteToCall(f)
  IN  IF w.err # "nil" THEN [bytes |-> <<>>, err |-> w.err]
      ELSE [bytes |-> w.bytes, err |-> "nil"]

\* GobDecode: ReadFrom, then locBuff is made anew whatever ReadFrom said.
GobDecodeCall(f, data) ==
  LET r == ReadFromCall(f, data)
  IN  IF ~MakeOk(r.f.k) THEN [f |-> r.f, err |-> "panic"]
      ELSE [f |-> [r.f EXCEPT !.locBuff = [i \in 1..r.f.k |-> 0]], err |-> r.err]

\* ---------------------------------------------------------------- streams

\* failWriter: Write fails once count has reached failsAfter, and takes all
\* of p otherwise.
FailWriter(failsAfter) == [failsAfter |-> failsAfter, count |-> 0]

FailWriterWrite(w, p) ==
  IF w.count >= w.failsAfter
  THEN [w |-> w, n |-> 0, err |-> "simulated write failure"]
  ELSE [w |-> [w EXCEPT !.count = w.count + Len(p)], n |-> Len(p), err |-> "nil"]

\* BitSet.WriteTo into the writer: the length, then the words if there are
\* any; the count is the bytes written and the writer's error is returned.
BitSetWriteToStream(b, w) ==
  LET wl == FailWriterWrite(w, BEBytes(b.length, Uint64Size))
      words == WordsBytes(b.bits, 0, WordsNeeded(b.length))
      ww == FailWriterWrite(wl.w, words)
  IN  IF wl.err # "nil" THEN [w |-> wl.w, n |-> 0, err |-> wl.err]
      ELSE IF words = <<>> THEN [w |-> wl.w, n |-> wl.n, err |-> "nil"]
      ELSE [w |-> ww.w, n |-> wl.n + ww.n, err |-> ww.err]

\* Mutant of WriteToStreamCall: the error of writing k is dropped.
WriteToStreamCallDropsError(f, w) ==
  LET wm == FailWriterWrite(w, BEBytes(f.m, Uint64Size))
      wk == FailWriterWrite(wm.w, BEBytes(f.k, Uint64Size))
      wb == BitSetWriteToStream(f.b, wk.w)
  IN  IF f.b.nil THEN [w |-> w, n |-> 0, err |-> "panic", failed |-> "nil"]
      ELSE IF wm.err # "nil" THEN [w |-> wm.w, n |-> 0, err |-> wm.err, failed |-> wm.err]
      ELSE IF wk.err # "nil" THEN [w |-> wk.w, n |-> 0, err |-> "nil", failed |-> wk.err]
      ELSE [w |-> wb.w, n |-> wb.n + 2 * Uint64Size, err |-> wb.err, failed |-> wb.err]

\* WriteTo into the writer w: binary.Write of m, of k, then the bit set.
\* failed is the error the writer gave, err the error WriteTo returns.
WriteToStreamCall(f, w) ==
  LET wm == FailWriterWrite(w, BEBytes(f.m, Uint64Size))
      wk == FailWriterWrite(wm.w, BEBytes(f.k, Uint64Size))
      wb == BitSetWriteToStream(f.b, wk.w)
  IN  IF f.b.nil THEN [w |-> w, n |-> 0, err |-> "panic", failed |-> "nil"]
      ELSE IF wm.err # "nil" THEN [w |-> wm.w, n |-> 0, err |-> wm.err, failed |-> wm.err]
      ELSE IF wk.err # "nil" THEN [w |-> wk.w, n |-> 0, err |-> wk.err, failed |-> wk.err]
      ELSE [w |-> wb.w, n |-> wb.n + 2 * Uint64Size, err |-> wb.err, failed |-> wb.err]

\* failReader over data: Read fails once count has reached failsAfter,
\* reports io.EOF when p would go past failsAfter, and fills p otherwise.
FailReader(data, failsAfter) == [data |-> data, failsAfter |-> failsAfter, count |-> 0]

FailReaderRead(r, len) ==
  IF r.count >= r.failsAfter
  THEN [r |-> r, bytes |-> <<>>, err |-> "simulated read failure"]
  ELSE IF r.count + len > r.failsAfter \/ r.count + len > Len(r.data)
  THEN [r |-> r, bytes |-> <<>>, err |-> "EOF"]
  ELSE [r |-> [r EXCEPT !.count = r.count + len],
        bytes |-> SubSeq(r.data, r.count + 1, r.count + len), err |-> "nil"]

\* binary.Read of one uint64 from the reader: io.ReadFull returns the
\* error of a Read that gave no bytes as it is.
ReadUint64Stream(r) ==
  LET rd == FailReaderRead(r, Uint64Size)
  IN  [r |-> rd.r, v |-> BEValue(rd.bytes), err |-> rd.err]

\* BitSet.ReadFrom from the reader: io.EOF becomes io.ErrUnexpectedEOF, any
\* other error of the reader is returned.
BitSetReadFromStream(r) ==
  LET hdr == ReadUint64Stream(r)
      n == WordsNeeded(hdr.v)
      wds == FailReaderRead(hdr.r, Uint64Size * n)
      eof(e) == IF e = "EOF" THEN "ErrUnexpectedEOF" ELSE e
  IN  IF hdr.err # "nil" THEN [err |-> eof(hdr.err), b |-> NilBitSet, n |-> 0]
      ELSE IF n = 0
      THEN [err |-> "nil", b |-> [nil |-> FALSE, length |-> hdr.v, bits |-> {}],
            n |-> Uint64Size]
      ELSE IF wds.err # "nil" THEN [err |-> eof(wds.err), b |-> NilBitSet, n |-> 0]
      ELSE [err |-> "nil",
            b |-> [nil |-> FALSE, length |-> hdr.v, bits |-> BitsOfWords(wds.bytes, n)],
            n |-> Uint64Size + Uint64Size * n]

\* ReadFrom from the reader r. stage is the field whose read failed and
\* failed the error of that read.
ReadFromStreamCall(f, r) ==
  LET rm == ReadUint64Stream(r)
      rk == ReadUint64Stream(rm.r)
      rb == BitSetReadFromStream(rk.r)
  IN  IF rm.err # "nil"
      THEN [f |-> f, n |-> 0, err |-> rm.err, stage |-> "m", failed |-> rm.err]
      ELSE IF rk.err # "nil"
      THEN [f |-> f, n |-> 0, err |-> rk.err, stage |-> "k", failed |-> rk.err]
      ELSE IF rb.err # "nil"
      THEN [f |-> f, n |-> 0, err |-> rb.err, stage |-> "b", failed |-> rb.err]
      ELSE [f |-> [f EXCEPT !.m = ToUint(rm.v), !.k = ToUint(rk.v), !.b = rb.b,
                            !.hasher = NewHasher],
            n |-> rb.n + 2 * Uint64Size, err |-> "nil", stage |-> "none", failed |-> "nil"]

\* ------------------------------------------------------------------- json

\* strconv: the decimal digits of v, and back.
RECURSIVE Decimal(_)
Decimal(v) == IF v < 10 THEN <<v>> ELSE Append(Decimal(v \div 10), v % 10)

RECURSIVE ParseDecimal(_)
ParseDecimal(ds) ==
  IF ds = <<>> THEN 0
  ELSE 10 * ParseDecimal(SubSeq(ds, 1, Len(ds) - 1)) + ds[Len(ds)]

\* A JSON text: not valid JSON, or an object with some of the members "m",
\* "k" (numbers, as digits) and "b" (the bit set's text, as the bytes it
\* encodes; null when bnull).
NoDoc == [valid |-> FALSE, has |-> {}, m |-> <<>>, k |-> <<>>, bnull |-> TRUE, b |-> <<>>]

\* MarshalJSON: json.Marshal(bloomFilterJSON{f.m, f.k, f.b}).
MarshalJSONCall(f) ==
  [valid |-> TRUE, has |-> {"m", "k", "b"}, m |-> Decimal(f.m), k |-> Decimal(f.k),
   bnull |-> f.b.nil, b |-> IF f.b.nil THEN <<>> ELSE BitSetWriteTo(f.b)]

\* Mutant of UnmarshalJSONCall: the error of json.Unmarshal is returned
\* after the fields of the empty bloomFilterJSON were stored.
UnmarshalJSONCallStoresFirst(f, doc) ==
  LET jm == IF "m" \in doc.has THEN ParseDecimal(doc.m) ELSE 0
      jk == IF "k" \in doc.has THEN ParseDecimal(doc.k) ELSE 0
      rb == IF "b" \in doc.has /\ ~doc.bnull THEN BitSetReadFrom(doc.b)
            ELSE [err |-> "nil", b |-> NilBitSet, n |-> 0]
      z == [f EXCEPT !.m = 0, !.k = 0, !.b = NilBitSet, !.hasher = NewHasher,
                     !.locBuff = <<>>]
  IN  IF ~doc.valid THEN [f |-> z, err |-> "SyntaxError"]
      ELSE IF jm >= UintMod \/ jk >= UintMod THEN [f |-> z, err |-> "UnmarshalTypeError"]
      ELSE IF rb.err # "nil" THEN [f |-> z, err |-> rb.err]
      ELSE LET g == [f EXCEPT !.m = jm, !.k = jk, !.b = rb.b, !.hasher = NewHasher]
           IN  IF ~MakeOk(jk) THEN [f |-> g, err |-> "panic"]
               ELSE [f |-> [g EXCEPT !.locBuff = [i \in 1..jk |-> 0]], err |-> "nil"]

\* UnmarshalJSON: json.Unmarshal into a bloomFilterJSON, then the fields.
UnmarshalJSONCall(f, doc) ==
  LET jm == IF "m" \in doc.has THEN ParseDecimal(doc.m) ELSE 0
      jk == IF "k" \in doc.has THEN ParseDecimal(doc.k) ELSE 0
      rb == IF "b" \in doc.has /\ ~doc.bnull THEN BitSetReadFrom(doc.b)
            ELSE [err |-> "nil", b |-> NilBitSet, n |-> 0]
  IN  IF ~doc.valid THEN [f |-> f, err |-> "SyntaxError"]
      ELSE IF jm >= UintMod \/ jk >= UintMod THEN [f |-> f, err |-> "UnmarshalTypeError"]
      ELSE IF rb.err # "nil" THEN [f |-> f, err |-> rb.err]
      ELSE LET g == [f EXCEPT !.m = jm, !.k = jk, !.b = rb.b, !.hasher = NewHasher]
           IN  IF ~MakeOk(jk) THEN [f |-> g, err |-> "panic"]
               ELSE [f |-> [g EXCEPT !.locBuff = [i \in 1..jk |-> 0]], err |-> "nil"]

\* ------------------------------------------------------------------ state

\* arch    the build: GOARCH=386 or amd64
\* flt     the two BloomFilter objects
\* added   per filter, the keys whose Add or TestAndAdd has returned since
\*         the filter was built, cleared or decoded (history)
\* origin  per filter, how it was last (re)built: "zero", "new", "decoded"
\* wire    what the last encoding call produced: the bytes of WriteTo or
\*         GobEncode, the text of MarshalJSON, and the m, k and bit set of
\*         the filter that was encoded (history)
\* ret     the last call: its name, receiver, arguments and results; err is
\*         "nil", an error's name, or "panic" (the call did not return)
Ret(op, id, arg, val, n, err) ==
  [op |-> op, id |-> id, arg |-> arg, val |-> val, n |-> n, err |-> err]

Wire(bytes, doc, f) ==
  [bytes |-> bytes, doc |-> doc, src |-> [m |-> f.m, k |-> f.k, b |-> f.b]]

\* The goroutines that call Test on the filter f, and what each holds: where
\* it is in Test, its key, the a and b of base_hashes, the loop index and the
\* result of Test.
Threads == {"t1", "t2"}

IdleThread ==
  [pc |-> "idle", op |-> "Test", data |-> <<>>, ua |-> 0, ub |-> 0, i |-> 0,
   val |-> FALSE, lock |-> FALSE, snap |-> ZeroFilter]

Idle == \A t \in Threads : thr[t].pc = "idle"

Panicked == ret.err = "panic"

\* The filters after a call left f in flt[id]: a bit set the two filters
\* share shows the call's bits in the other filter too.
Store(id, f) ==
  [j \in Ids |-> IF j = id THEN f
                 ELSE IF shared THEN [flt[j] EXCEPT !.b = f.b]
                 ELSE flt[j]]

ErrOf(panic) == IF panic THEN "panic" ELSE "nil"

Init ==
  /\ arch \in Archs
  /\ flt = [id \in Ids |-> ZeroFilter]
  /\ added = [id \in Ids |-> {}]
  /\ origin = [id \in Ids |-> "zero"]
  /\ shared = FALSE
  /\ wire = Wire(<<>>, NoDoc, ZeroFilter)
  /\ ret = Ret("none", "f", <<>>, FALSE, 0, "nil")
  /\ thr = [t \in Threads |-> IdleThread]

New(id, m, k) ==
  /\ ~Panicked
  /\ IF MakeOk(k)
     THEN /\ flt' = [flt EXCEPT ![id] = NewFilter(m, k)]
          /\ added' = [added EXCEPT ![id] = {}]
          /\ origin' = [origin EXCEPT ![id] = "new"]
          /\ shared' = FALSE
          /\ ret' = Ret("New", id, <<m, k>>, FALSE, 0, "nil")
     ELSE /\ ret' = Ret("New", id, <<m, k>>, FALSE, 0, "panic")
          /\ UNCHANGED <<flt, added, origin, shared>>
  /\ UNCHANGED <<arch, thr, wire>>

\* NewWithEstimates(n, pct/100): estimateParameters, then New. ret.arg
\* holds n, pct and the m and k estimateParameters returned.
NewWithEstimates(id, n, pct) ==
  /\ ~Panicked
  /\ \E mk \in EstimateParameters(n, pct) :
       IF MakeOk(mk[2])
       THEN /\ flt' = [flt EXCEPT ![id] = NewFilter(mk[1], mk[2])]
            /\ added' = [added EXCEPT ![id] = {}]
            /\ origin' = [origin EXCEPT ![id] = "new"]
            /\ shared' = FALSE
            /\ ret' = Ret("NewWithEstimates", id, <<n, pct, mk[1], mk[2]>>, FALSE, 0, "nil")
       ELSE /\ ret' = Ret("NewWithEstimates", id, <<n, pct, mk[1], mk[2]>>, FALSE, 0, "panic")
            /\ UNCHANGED <<flt, added, origin, shared>>
  /\ UNCHANGED <<arch, thr, wire>>

Add(id, data) ==
  /\ ~Panicked
  /\ LET r == AddCall(flt[id], data)
     IN  /\ flt' = Store(id, r.f)
         /\ added' = IF r.panic THEN added
                     ELSE [added EXCEPT ![id] = @ \cup {data}]
         /\ ret' = Ret("Add", id, data, FALSE, 0, ErrOf(r.panic))
  /\ UNCHANGED <<arch, thr, shared, origin, wire>>

Test(id, data) ==
  /\ ~Panicked
  /\ LET r == TestCall(flt[id], data)
     IN  /\ flt' = [flt EXCEPT ![id] = r.f]
         /\ ret' = Ret("Test", id, data, r.val, 0, ErrOf(r.panic))
  /\ UNCHANGED <<arch, thr, shared, added, origin, wire>>

TestAndAdd(id, data) ==
  /\ ~Panicked
  /\ LET r == TestAndAddCall(flt[id], data)
     IN  /\ flt' = Store(id, r.f)
         /\ added' = IF r.panic THEN added
                     ELSE [added EXCEPT ![id] = @ \cup {data}]
         /\ ret' = Ret("TestAndAdd", id, data, r.val, 0, ErrOf(r.panic))
  /\ UNCHANGED <<arch, thr, shared, origin, wire>>

ClearAll(id) ==
  /\ ~Panicked
  /\ LET r == ClearAllCall(flt[id])
     IN  /\ flt' = Store(id, r.f)
         /\ added' = IF r.panic THEN added ELSE [added EXCEPT ![id] = {}]
         /\ ret' = Ret("ClearAll", id, <<>>, FALSE, 0, ErrOf(r.panic))
  /\ UNCHANGED <<arch, thr, shared, origin, wire>>

\* WriteTo into an empty bytes.Buffer.
WriteTo(id) ==
  /\ ~Panicked
  /\ LET w == WriteToCall(flt[id])
     IN  /\ wire' = IF w.err = "nil" THEN Wire(w.bytes, NoDoc, flt[id]) ELSE wire
         /\ ret' = Ret("WriteTo", id, <<>>, FALSE, w.n, w.err)
  /\ UNCHANGED <<arch, thr, shared, flt, added, origin>>

GobEncode(id) ==
  /\ ~Panicked
  /\ LET w == GobEncodeCall(flt[id])
     IN  /\ wire' = IF w.err = "nil" THEN Wire(w.bytes, NoDoc, flt[id]) ELSE wire
         /\ ret' = Ret("GobEncode", id, <<>>, FALSE, 0, w.err)
  /\ UNCHANGED <<arch, thr, shared, flt, added, origin>>

MarshalJSON(id) ==
  /\ ~Panicked
  /\ wire' = Wire(<<>>, MarshalJSONCall(flt[id]), flt[id])
  /\ ret' = Ret("MarshalJSON", id, <<>>, FALSE, 0, "nil")
  /\ UNCHANGED <<arch, thr, shared, flt, added, origin>>

\* What a decode leaves of the histories: a successful one rebuilds the
\* filter.
Decoded(id, err) ==
  /\ added' = IF err = "nil" THEN [added EXCEPT ![id] = {}] ELSE added
  /\ origin' = IF err = "nil" THEN [origin EXCEPT ![id] = "decoded"] ELSE origin
  /\ shared' = IF err = "nil" THEN FALSE ELSE shared

\* ReadFrom over the first len bytes of the wire (all of them, or a
\* truncated stream). ret.arg holds len.
ReadFrom(id, len) ==
  /\ ~Panicked
  /\ LET r == ReadFromCall(flt[id], SubSeq(wire.bytes, 1, len))
     IN  /\ flt' = [flt EXCEPT ![id] = r.f]
         /\ ret' = Ret("ReadFrom", id, <<len>>, FALSE, r.n, r.err)
         /\ Decoded(id, r.err)
  /\ UNCHANGED <<arch, thr, wire>>

GobDecode(id, len) ==
  /\ ~Panicked
  /\ LET r == GobDecodeCall(flt[id], SubSeq(wire.bytes, 1, len))
     IN  /\ flt' = [flt EXCEPT ![id] = r.f]
         /\ ret' = Ret("GobDecode", id, <<len>>, FALSE, 0, r.err)
         /\ Decoded(id, r.err)
  /\ UNCHANGED <<arch, thr, wire>>

UnmarshalJSON(id) ==
  /\ ~Panicked
  /\ LET r == UnmarshalJSONCall(flt[id], wire.doc)
     IN  /\ flt' = [flt EXCEPT ![id] = r.f]
         /\ ret' = Ret("UnmarshalJSON", id, <<>>, FALSE, 0, r.err)
         /\ Decoded(id, r.err)
  /\ UNCHANGED <<arch, thr, wire>>

\* WriteTo into a failWriter. ret.arg holds failsAfter, the bytes the writer
\* took and the error the writer gave.
WriteToFailWriter(id, failsAfter) ==
  /\ ~Panicked
  /\ LET w == WriteToStreamCall(flt[id], FailWriter(failsAfter))
     IN  ret' = Ret("WriteToFailWriter", id, <<failsAfter, w.w.count, w.failed>>,
                    FALSE, w.n, w.err)
  /\ UNCHANGED <<arch, thr, shared, flt, added, origin, wire>>

\* ReadFrom from a failReader over the wire's bytes. ret.arg holds
\* failsAfter, the field whose read failed and the error of that read.
ReadFromFailReader(id, failsAfter) ==
  /\ ~Panicked
  /\ LET r == ReadFromStreamCall(flt[id], FailReader(wire.bytes, failsAfter))
     IN  /\ flt' = [flt EXCEPT ![id] = r.f]
         /\ ret' = Ret("ReadFromFailReader", id, <<failsAfter, r.stage, r.failed>>,
                       FALSE, r.n, r.err)
         /\ Decoded(id, r.err)
  /\ UNCHANGED <<arch, thr, wire>>

\* flt[id].Merge(flt[other]) of two filters that New built. ret.arg holds
\* other.
Merge(id, other) ==
  /\ ~Panicked
  /\ origin[id] = "new" /\ origin[other] = "new"
  /\ LET r == MergeCall(flt[id], flt[other])
     IN  /\ flt' = Store(id, r.f)
         /\ added' = IF r.err = "nil"
                     THEN [added EXCEPT ![id] = added[id] \cup added[other]]
                     ELSE added
         /\ ret' = Ret("Merge", id, <<other>>, FALSE, 0, r.err)
  /\ UNCHANGED <<arch, thr, shared, origin, wire>>

\* flt[id] = flt[src].Copy() of a filter that New built. ret.arg holds src.
Copy(id, src) ==
  /\ ~Panicked
  /\ origin[src] = "new"
  /\ LET c == CopyCall(flt[src])
     IN  /\ flt' = [flt EXCEPT ![id] = c.f]
         /\ shared' = c.shares
  /\ added' = [added EXCEPT ![id] = added[src]]
  /\ origin' = [origin EXCEPT ![id] = "copy"]
  /\ ret' = Ret("Copy", id, <<src>>, FALSE, 0, "nil")
  /\ UNCHANGED <<arch, thr, wire>>

\* EstimateFalsePositiveRate(n). ret.arg holds n, the positives counted and
\* the number of keys tested.
EstimateFalsePositiveRate(id, n) ==
  /\ ~Panicked
  /\ LET r == EstimateFalsePositiveRateCall(flt[id], n)
     IN  /\ flt' = Store(id, r.f)
         /\ added' = IF r.panic THEN added ELSE [added EXCEPT ![id] = {}]
         /\ ret' = Ret("EstimateFalsePositiveRate", id, <<n, r.fp, r.rounds, FpRate(r.fp)>>,
                       FALSE, 0, ErrOf(r.panic))
  /\ UNCHANGED <<arch, thr, shared, origin, wire>>

\* go func() { f.Test(data) }: goroutine t starts a Test of a key that was
\* added.
Go(t, data) ==
  /\ ~Panicked
  /\ thr[t].pc = "idle" /\ data \in added["f"]
  /\ flt["f"].m >= 1
  /\ thr' = [thr EXCEPT ![t] = [IdleThread EXCEPT !.pc = "reset", !.data = data]]
  /\ UNCHANGED <<arch, flt, added, origin, shared, wire, ret>>

\* base_hashes: f.hasher.Reset()
TestReset(t) ==
  /\ thr[t].pc = "reset"
  /\ flt' = [flt EXCEPT !["f"].hasher = HasherReset(flt["f"].hasher)]
  /\ thr' = [thr EXCEPT ![t].pc = "write"]
  /\ UNCHANGED <<arch, added, origin, shared, wire, ret>>

\* base_hashes: f.hasher.Write(data)
TestWrite(t) ==
  /\ thr[t].pc = "write"
  /\ flt' = [flt EXCEPT !["f"].hasher = <<HasherWrite(flt["f"].hasher[1], thr[t].data)>>]
  /\ thr' = [thr EXCEPT ![t].pc = "sum"]
  /\ UNCHANGED <<arch, added, origin, shared, wire, ret>>

\* base_hashes: f.hasher.Sum(nil), and its two halves.
TestSum(t) ==
  /\ thr[t].pc = "sum"
  /\ thr' = [thr EXCEPT ![t].pc = "locate", ![t].i = 0,
                        ![t].ua = flt["f"].hasher[1] % HashMod,
                        ![t].ub = flt["f"].hasher[1] \div HashMod]
  /\ UNCHANGED <<arch, flt, added, origin, shared, wire, ret>>

\* locations: one round of the loop that fills f.locBuff.
TestLocate(t) ==
  /\ thr[t].pc = "locate"
  /\ IF thr[t].i >= flt["f"].k
     THEN /\ thr' = [thr EXCEPT ![t].pc = "probe", ![t].i = 0]
          /\ flt' = flt
     ELSE /\ flt' = [flt EXCEPT !["f"].locBuff[thr[t].i + 1] =
                       ((thr[t].ua + thr[t].ub * thr[t].i) % UintMod) % flt["f"].m]
          /\ thr' = [thr EXCEPT ![t].i = thr[t].i + 1]
  /\ UNCHANGED <<arch, added, origin, shared, wire, ret>>

\* Test: one round of the loop that tests the bits at f.locBuff.
TestProbe(t) ==
  /\ thr[t].pc = "probe" /\ thr[t].op = "Test"
  /\ thr' = IF thr[t].i >= flt["f"].k
            THEN [thr EXCEPT ![t].pc = "done", ![t].val = TRUE]
            ELSE IF ~BitSetTest(flt["f"].b, flt["f"].locBuff[thr[t].i + 1])
            THEN [thr EXCEPT ![t].pc = "done", ![t].val = FALSE]
            ELSE [thr EXCEPT ![t].i = thr[t].i + 1]
  /\ UNCHANGED <<arch, flt, added, origin, shared, wire, ret>>

\* Add: one round of the loop that sets the bits at f.locBuff.
AddSet(t) ==
  /\ thr[t].pc = "probe" /\ thr[t].op = "Add"
  /\ IF thr[t].i >= flt["f"].k
     THEN /\ thr' = [thr EXCEPT ![t].pc = "done"]
          /\ flt' = flt
     ELSE /\ flt' = [flt EXCEPT !["f"].b =
                       BitSetSet(flt["f"].b, flt["f"].locBuff[thr[t].i + 1])]
          /\ thr' = [thr EXCEPT ![t].i = thr[t].i + 1]
  /\ UNCHANGED <<arch, added, origin, shared, wire, ret>>

\* TestAndAdd: f.present = true
TestAndAddPresent(t) ==
  /\ thr[t].pc = "probe" /\ thr[t].op = "TestAndAdd"
  /\ flt' = [flt EXCEPT !["f"].present = TRUE]
  /\ thr' = [thr EXCEPT ![t].pc = "round"]
  /\ UNCHANGED <<arch, added, origin, shared, wire, ret>>

\* TestAndAdd: one round of the loop that tests and sets the bits at
\* f.locBuff, and the return of f.present after the last.
TestAndAddRound(t) ==
  /\ thr[t].pc = "round"
  /\ IF thr[t].i >= flt["f"].k
     THEN /\ thr' = [thr EXCEPT ![t].pc = "done", ![t].val = flt["f"].present]
          /\ flt' = flt
     ELSE LET loc == flt["f"].locBuff[thr[t].i + 1]
          IN  /\ flt' = [flt EXCEPT
                          !["f"].present = flt["f"].present /\ BitSetTest(flt["f"].b, loc),
                          !["f"].b = BitSetSet(flt["f"].b, loc)]
              /\ thr' = [thr EXCEPT ![t].i = thr[t].i + 1]
  /\ UNCHANGED <<arch, added, origin, shared, wire, ret>>

\* ClearAll: f.b.ClearAll()
ClearAllStep(t) ==
  /\ thr[t].pc = "clear"
  /\ flt' = [flt EXCEPT !["f"].b = BitSetClearAll(flt["f"].b)]
  /\ thr' = [thr EXCEPT ![t].pc = "done"]
  /\ UNCHANGED <<arch, added, origin, shared, wire, ret>>

\* The calls a goroutine makes on the shared filter.
LockedOps == {"Add", "Test", "TestAndAdd", "ClearAll"}

\* A goroutine is about to call op on f and asks for the lock its callers
\* share.
Call(t, op, data) ==
  /\ ~Panicked
  /\ thr[t].pc = "idle"
  /\ origin["f"] = "new" /\ flt["f"].m >= 1
  /\ thr' = [thr EXCEPT ![t] = [IdleThread EXCEPT !.pc = "wait", !.op = op, !.data = data]]
  /\ UNCHANGED <<arch, flt, added, origin, shared, wire, ret>>

\* Mutant of Acquire: the goroutine does not wait for the lock.
AcquireNoWait(t) ==
  /\ thr[t].pc = "wait"
  /\ thr' = [thr EXCEPT ![t].pc = IF thr[t].op = "ClearAll" THEN "clear" ELSE "reset",
                        ![t].lock = TRUE, ![t].snap = flt["f"]]
  /\ UNCHANGED <<arch, flt, added, origin, shared, wire, ret>>

\* The goroutine gets the lock once no other holds it, and enters its
\* call; snap is the filter the call found.
Acquire(t) ==
  /\ thr[t].pc = "wait"
  /\ \A u \in Threads : ~thr[u].lock
  /\ thr' = [thr EXCEPT ![t].pc = IF thr[t].op = "ClearAll" THEN "clear" ELSE "reset",
                        ![t].lock = TRUE, ![t].snap = flt["f"]]
  /\ UNCHANGED <<arch, flt, added, origin, shared, wire, ret>>

\* The call has returned and the goroutine gives the lock back.
Release(t) ==
  /\ thr[t].pc = "done" /\ thr[t].lock
  /\ thr' = [thr EXCEPT ![t] = IdleThread]
  /\ added' = [added EXCEPT !["f"] =
                 CASE thr[t].op \in {"Add", "TestAndAdd"} -> added["f"] \cup {thr[t].data}
                   [] thr[t].op = "ClearAll" -> {}
                   [] OTHER -> added["f"]]
  /\ UNCHANGED <<arch, flt, origin, shared, wire, ret>>

\* The operations of one filter, f, without the encodings.
Next ==
  \/ \E m \in 0..MaxM, k \in 0..MaxK : New("f", m, k)
  \/ \E n \in 0..MaxN, pct \in Pcts : NewWithEstimates("f", n, pct)
  \/ \E data \in Keys : Add("f", data)
  \/ \E data \in Keys : Test("f", data)
  \/ \E data \in Keys : TestAndAdd("f", data)
  \/ ClearAll("f")
  \/ \E n \in 0..MaxN : EstimateFalsePositiveRate("f", n)

Spec == Init /\ [][Next]_vars

\* Nothing has been encoded yet.
NotEncoded == wire.bytes = <<>> /\ ~wire.doc.valid

\* Where a stream of n bytes is cut: at and next to each field boundary,
\* one byte short, and not at all.
Cuts(n) ==
  {0, 1, Uint64Size, Uint64Size + 1, 2 * Uint64Size, 2 * Uint64Size + 1, n - 1, n}
    \cap (0..n)

\* The binary encoding and its failures: f is built and filled, then
\* written once (a bit set of one word, or of two); g, the zero value or a filter of its own (as New(1000, 1)
\* in TestWriteToReadFrom), reads the stream or a truncated copy of it.
NextCodec ==
  \/ \E m \in 0..MaxM, k \in 0..MaxK : NotEncoded /\ New("f", m, k)
  \/ NotEncoded /\ New("f", WordSize + 1, 1)
  \/ \E data \in Keys : NotEncoded /\ Add("f", data)
  \/ NotEncoded /\ WriteTo("f")
  \/ NotEncoded /\ GobEncode("f")
  \/ \E k \in 1..MaxK : ~NotEncoded /\ origin["g"] = "zero" /\ New("g", MaxM, k)
  \/ \E len \in Cuts(Len(wire.bytes)) : ~NotEncoded /\ ReadFrom("g", len)
  \/ \E len \in Cuts(Len(wire.bytes)) : ~NotEncoded /\ GobDecode("g", len)

SpecCodec == Init /\ [][NextCodec]_vars

\* The round trips: f is built and filled, then encoded once in one of the
\* three ways; g decodes all of it and is then used with the key "" (as in
\* TestWriteToReadFrom).
NextRoundTrip ==
  \/ \E m \in 0..MaxM, k \in 0..MaxK : NotEncoded /\ New("f", m, k)
  \/ \E data \in Keys : NotEncoded /\ Add("f", data)
  \/ NotEncoded /\ WriteTo("f")
  \/ NotEncoded /\ GobEncode("f")
  \/ NotEncoded /\ MarshalJSON("f")
  \/ \E k \in 1..MaxK : ~NotEncoded /\ origin["g"] = "zero" /\ New("g", MaxM, k)
  \/ ~NotEncoded /\ ReadFrom("g", Len(wire.bytes))
  \/ ~NotEncoded /\ GobDecode("g", Len(wire.bytes))
  \/ ~NotEncoded /\ UnmarshalJSON("g")
  \/ origin["g"] = "decoded" /\ Test("g", <<>>)
  \/ origin["g"] = "decoded" /\ Add("g", <<>>)
  \/ origin["g"] = "decoded" /\ TestAndAdd("g", <<>>)

SpecRoundTrip == Init /\ [][NextRoundTrip]_vars

\* Streams that fail: f is built and written to a buffer, then to writers
\* that fail after some bytes; g reads the buffer through readers that fail.
NextStream ==
  \/ \E m \in 0..MaxM, k \in 0..MaxK : NotEncoded /\ New("f", m, k)
  \/ NotEncoded /\ New("f", WordSize + 1, 1)
  \/ NotEncoded /\ Add("f", <<1>>)
  \/ NotEncoded /\ WriteTo("f")
  \/ \E fa \in Cuts(Len(wire.bytes)) : ~NotEncoded /\ WriteToFailWriter("f", fa)
  \/ \E k \in 1..MaxK : ~NotEncoded /\ origin["g"] = "zero" /\ New("g", MaxM, k)
  \/ \E fa \in Cuts(Len(wire.bytes)) : ~NotEncoded /\ ReadFromFailReader("g", fa)

SpecStream == Init /\ [][NextStream]_vars

\* Two filters, f and g, with the same or with different m and k, and
\* f.Merge(g).
NextMerge ==
  \/ \E m \in (MaxM - 1)..MaxM, k \in (MaxK - 1)..MaxK : New("f", m, k)
  \/ \E m \in (MaxM - 1)..MaxM, k \in (MaxK - 1)..MaxK : New("g", m, k)
  \/ \E data \in {<<>>, <<1>>} : Add("f", data)
  \/ \E data \in {<<1>>, <<2>>} : Add("g", data)
  \/ Merge("f", "g")
  \/ \E data \in Keys : Test("f", data)

SpecMerge == Init /\ [][NextMerge]_vars

\* A filter f, its copy g, and calls on both.
NextCopy ==
  \/ \E m \in (MaxM - 1)..MaxM, k \in (MaxK - 1)..MaxK :
       origin["g"] = "zero" /\ New("f", m, k)
  \/ \E data \in {<<>>, <<1>>} : Add("f", data)
  \/ Copy("g", "f")
  \/ \E data \in {<<1>>, <<2>>} : origin["g"] = "copy" /\ Add("g", data)
  \/ \E data \in {<<1>>, <<2>>} : origin["g"] = "copy" /\ TestAndAdd("g", data)
  \/ origin["g"] = "copy" /\ ClearAll("g")
  \/ origin["g"] = "copy" /\ ClearAll("f")
  \/ \E id \in Ids, data \in Keys : origin["g"] = "copy" /\ Test(id, data)

SpecCopy == Init /\ [][NextCopy]_vars

\* The bits of the filter the goroutines share.
ConcurrentM == WordSize - 1

\* TestConcurrent: f is built and two keys are added, then two goroutines
\* call Test on f, each with one of the keys, with no lock.
NextConcurrent ==
  \/ \E m \in {MaxM, ConcurrentM}, k \in 1..MaxK : Idle /\ New("f", m, k)
  \/ \E data \in {<<1>>, <<2>>} : Idle /\ Add("f", data)
  \/ Go("t1", <<1>>)
  \/ Go("t2", <<2>>)
  \/ \E t \in Threads : TestReset(t)
  \/ \E t \in Threads : TestWrite(t)
  \/ \E t \in Threads : TestSum(t)
  \/ \E t \in Threads : TestLocate(t)
  \/ \E t \in Threads : TestProbe(t)

SpecConcurrent == Init /\ [][NextConcurrent]_vars

\* Two goroutines call Add, Test, TestAndAdd and ClearAll on f, each call
\* under the one lock.
NextLocked ==
  \/ \E k \in 1..MaxK : Idle /\ origin["f"] = "zero" /\ New("f", MaxM, k)
  \/ \E t \in Threads, op \in LockedOps, data \in {<<1>>, <<2>>} : Call(t, op, data)
  \/ \E t \in Threads : Acquire(t)
  \/ \E t \in Threads : TestReset(t)
  \/ \E t \in Threads : TestWrite(t)
  \/ \E t \in Threads : TestSum(t)
  \/ \E t \in Threads : TestLocate(t)
  \/ \E t \in Threads : TestProbe(t)
  \/ \E t \in Threads : AddSet(t)
  \/ \E t \in Threads : TestAndAddPresent(t)
  \/ \E t \in Threads : TestAndAddRound(t)
  \/ \E t \in Threads : ClearAllStep(t)
  \/ \E t \in Threads : Release(t)

SpecLocked == Init /\ [][NextLocked]_vars

\* ----------------------------------------------------------------- claims

DecodeOps == {"ReadFrom", "GobDecode", "UnmarshalJSON"}

\* The filter that was encoded, as it was then.
Encoded == [NewFilter(wire.src.m, wire.src.k) EXCEPT !.b = wire.src.b]

\* C1. No false negatives: in a filter with m >= 1 and k >= 1, every key
\* whose Add or TestAndAdd has returned tests true, now and after any further
\* Add, TestAndAdd and Test calls; a Test call that was made on such a key
\* returned true.
NoFalseNegatives ==
  \A id \in Ids : \A x \in added[id] :
    (flt[id].m >= 1 /\ flt[id].k >= 1) =>
      /\ ~TestCall(flt[id], x).panic
      /\ TestCall(flt[id], x).val
      /\ (ret.op = "Test" /\ ret.id = id /\ ret.arg = x) => (ret.err = "nil" /\ ret.val)

\* A Test of an added key returned true in a filter of two or more bits and
\* locations that holds two keys and is not saturated.
NoFalseNegativesWitness ==
  /\ ret.op = "Test" /\ ret.val /\ ret.arg \in added["f"]
  /\ flt["f"].m >= 2 /\ flt["f"].k >= 2 /\ Cardinality(added["f"]) >= 2
  /\ \E y \in Keys : ~TestCall(flt["f"], y).val

\* C2. TestAndAdd(x) is Test(x) followed by Add(x): it returns what Test
\* returns on the state before the call, and leaves the m, k and bit array
\* that Add leaves from that state.
TestAndAddIsTestThenAdd ==
  [][\A id \in Ids : \A x \in Keys :
       TestAndAdd(id, x) =>
         LET t == TestCall(flt[id], x)
             a == AddCall(t.f, x)
         IN  /\ (ret'.err = "panic") = (t.panic \/ a.panic)
             /\ ~t.panic =>
                  /\ ret'.val = t.val
                  /\ flt'[id].m = a.f.m /\ flt'[id].k = a.f.k /\ flt'[id].b = a.f.b]_vars

\* TestAndAdd returned false on a second key, having set bits, in a filter
\* of two locations.
TestAndAddWitness ==
  /\ ret.op = "TestAndAdd" /\ ret.err = "nil" /\ ~ret.val
  /\ flt["f"].k >= 2 /\ Cardinality(flt["f"].b.bits) >= 2
  /\ Cardinality(added["f"]) >= 2

\* C3. Add is idempotent: after Add(x), a second Add(x) leaves m, k and the
\* bit array as they are, and Test answers the same for every key.
AddIdempotent ==
  (ret.op = "Add" /\ ret.err = "nil") =>
    LET f1 == flt[ret.id]
        again == AddCall(f1, ret.arg)
    IN  /\ ~again.panic
        /\ again.f.m = f1.m /\ again.f.k = f1.k /\ again.f.b = f1.b
        /\ \A y \in Keys : TestCall(again.f, y).val = TestCall(f1, y).val

\* Add returned in a filter of two locations where it set bits.
AddIdempotentWitness ==
  /\ ret.op = "Add" /\ ret.err = "nil"
  /\ flt["f"].m >= 2 /\ flt["f"].k >= 2 /\ flt["f"].b.bits # {}

\* C4. New(m, k) clamps values below 1 up to 1: the filter has Cap() =
\* max(m, 1) and K() = max(k, 1), and all its bits are clear.
NewClamps ==
  (ret.op = "New" /\ ret.err = "nil") =>
    /\ Cap(flt[ret.id]) = Max(ret.arg[1], 1)
    /\ K(flt[ret.id]) = Max(ret.arg[2], 1)
    /\ flt[ret.id].b.bits = {}

\* C5. The estimator never yields a degenerate filter: the (m, k) it returns
\* and the filter NewWithEstimates builds have m >= 1 and k >= 1, and for
\* n = 0 they are m = k = 1.
EstimatorNeverDegenerate ==
  (ret.op = "NewWithEstimates") =>
    /\ ret.err = "nil"
    /\ ret.arg[3] >= 1 /\ ret.arg[4] >= 1
    /\ Cap(flt[ret.id]) >= 1 /\ K(flt[ret.id]) >= 1
    /\ ret.arg[1] = 0 => (Cap(flt[ret.id]) = 1 /\ K(flt[ret.id]) = 1)

\* C6. Both encodings round-trip: a successful decode of what an encoder
\* wrote yields a filter with the m, the k and the bit array of the filter
\* that was encoded, and every key that tests true on that one tests true on
\* the decoded one.
RoundTrip ==
  (ret.op \in DecodeOps /\ ret.err = "nil") =>
    LET g == flt[ret.id]
    IN  /\ g.m = wire.src.m /\ g.k = wire.src.k /\ g.b = wire.src.b
        /\ \A x \in Keys :
             TestCall(Encoded, x).val =>
               (~TestCall(g, x).panic /\ TestCall(g, x).val)

\* The part of C6 that is about the fields alone.
RoundTripFields ==
  (ret.op \in DecodeOps /\ ret.err = "nil") =>
    LET g == flt[ret.id]
    IN  g.m = wire.src.m /\ g.k = wire.src.k /\ g.b = wire.src.b

\* C7. A filter that was the destination of a successful decode of a valid
\* filter is usable: every Test, Add and TestAndAdd on it returns, having
\* probed k locations below m.
DecodedFilterUsable ==
  ( /\ ret.op \in {"Test", "Add", "TestAndAdd"}
    /\ origin[ret.id] = "decoded"
    /\ flt[ret.id].m >= 1 /\ flt[ret.id].k >= 1 ) =>
    /\ ret.err = "nil"
    /\ Len(flt[ret.id].locBuff) >= flt[ret.id].k
    /\ \A i \in 1..flt[ret.id].k : flt[ret.id].locBuff[i] < flt[ret.id].m

\* C8. On success WriteTo returns 16 plus the bytes the bit array wrote,
\* which is the number of bytes it appended to the stream; a successful
\* ReadFrom over those bytes returns the same count.
ByteCounts ==
  /\ (ret.op = "WriteTo" /\ ret.err = "nil") =>
       /\ ret.n = 16 + Len(BitSetWriteTo(flt[ret.id].b))
       /\ ret.n = Len(wire.bytes)
  /\ (ret.op = "ReadFrom" /\ ret.err = "nil" /\ ret.arg = <<Len(wire.bytes)>>) =>
       ret.n = Len(wire.bytes)

\* ReadFrom read back all 40 bytes of a filter whose bit set has two words.
ByteCountsWitness ==
  /\ ret.op = "ReadFrom" /\ ret.err = "nil"
  /\ ret.arg = <<Len(wire.bytes)>> /\ ret.n = 5 * Uint64Size
  /\ flt[ret.id].b.bits # {}

\* C9. A failed binary decode is atomic: when ReadFrom or GobDecode returns
\* an error, the destination's m, k and bit array are what they were before
\* the call.
FailedDecodeAtomic ==
  [][(ret'.op \in {"ReadFrom", "GobDecode"} /\ ret'.err \notin {"nil", "panic"}) =>
       /\ flt'[ret'.id].m = flt[ret'.id].m
       /\ flt'[ret'.id].k = flt[ret'.id].k
       /\ flt'[ret'.id].b = flt[ret'.id].b]_vars

\* A decode failed in the bit array's payload, after an m and a k that
\* differ from the destination's were read.
FailedDecodeWitness ==
  /\ ret.op \in {"ReadFrom", "GobDecode"} /\ ret.err = "ErrUnexpectedEOF"
  /\ ret.arg[1] > 2 * Uint64Size
  /\ flt[ret.id].m # wire.src.m /\ flt[ret.id].k # wire.src.k
  /\ origin[ret.id] = "new"

\* C10. ReadFrom over a proper prefix of a valid encoded filter returns
\* io.ErrUnexpectedEOF.
TruncatedIsUnexpectedEOF ==
  (ret.op = "ReadFrom" /\ ret.arg[1] < Len(wire.bytes)) =>
    ret.err = "ErrUnexpectedEOF"

\* C11. Stream failures are propagated unchanged: when the writer fails
\* while WriteTo writes m, k or the bit array, or the reader fails while
\* ReadFrom reads m or k, the call returns the stream's own error, which is
\* not nil; WriteTo leaves the filter's m, k and bits as they are.
StreamFailurePropagated ==
  [][/\ ret'.op = "WriteToFailWriter" =>
          /\ ret'.arg[3] # "nil" => ret'.err = ret'.arg[3]
          /\ ret'.err \in {"nil", "simulated write failure", "panic"}
          /\ flt' = flt
     /\ (ret'.op = "ReadFromFailReader" /\ ret'.arg[2] \in {"m", "k"}) =>
          (ret'.err = ret'.arg[3] /\ ret'.err # "nil")]_vars

\* The writer failed at the words of a bit array that has bits set, after
\* it took m, k and the length.
StreamFailureWitness ==
  /\ ret.op = "WriteToFailWriter" /\ ret.arg[2] = 3 * Uint64Size
  /\ ret.err = "simulated write failure"
  /\ flt[ret.id].b.bits # {}

\* C12. UnmarshalJSON on input that is not valid JSON returns an error and
\* leaves the destination's m, k and bit array as they are.
InvalidJSONRejected ==
  [][(ret'.op = "UnmarshalJSON" /\ ~wire.doc.valid) =>
       /\ ret'.err \notin {"nil", "panic"}
       /\ flt'[ret'.id].m = flt[ret'.id].m
       /\ flt'[ret'.id].k = flt[ret'.id].k
       /\ flt'[ret'.id].b = flt[ret'.id].b]_vars

\* UnmarshalJSON refused input that is not JSON, in a filter that had been
\* decoded and holds bits.
InvalidJSONWitness ==
  /\ ret.op = "UnmarshalJSON" /\ ret.err = "SyntaxError"
  /\ origin[ret.id] = "decoded" /\ flt[ret.id].b.bits # {}
  /\ flt[ret.id].k >= 1

\* C13. Merge rejects mismatched parameters: when the two filters differ in
\* m or in k, Merge returns the ParameterMismatch error and leaves m, k and
\* the bit arrays of both as they are, so Test on the receiver answers as
\* before for every key.
MergeRejectsMismatch ==
  [][(ret'.op = "Merge" /\ ( \/ flt[ret'.id].m # flt[ret'.arg[1]].m
                            \/ flt[ret'.id].k # flt[ret'.arg[1]].k )) =>
       /\ ret'.err = "ParameterMismatch"
       /\ \A id \in Ids : /\ flt'[id].m = flt[id].m
                          /\ flt'[id].k = flt[id].k
                          /\ flt'[id].b = flt[id].b
       /\ \A x \in Keys :
            TestCall(flt'[ret'.id], x).val = TestCall(flt[ret'.id], x).val]_vars

\* Merge refused a filter that differs in k alone and holds a key the
\* receiver does not hold.
MergeRejectsWitness ==
  /\ ret.op = "Merge" /\ ret.err = "ParameterMismatch"
  /\ flt["f"].m = flt["g"].m /\ flt["f"].k # flt["g"].k
  /\ \E x \in added["g"] : ~TestCall(flt["f"], x).val

\* C14. Merge is a sound set union: when the two filters have the same m and
\* k, Merge returns no error, the receiver's bit array becomes the bitwise OR
\* of the two, the argument is left as it is, and every key added to either
\* tests true on the receiver.
MergeIsUnion ==
  [][(ret'.op = "Merge" /\ flt[ret'.id].m = flt[ret'.arg[1]].m
                        /\ flt[ret'.id].k = flt[ret'.arg[1]].k) =>
       LET a == ret'.id
           b == ret'.arg[1]
       IN  /\ ret'.err = "nil"
           /\ flt'[a].b.bits = flt[a].b.bits \cup flt[b].b.bits
           /\ flt'[a].m = flt[a].m /\ flt'[a].k = flt[a].k
           /\ flt'[b] = flt[b]
           /\ \A x \in added[a] \cup added[b] :
                ~TestCall(flt'[a], x).panic /\ TestCall(flt'[a], x).val]_vars

\* Merge brought bits of a key of the argument into a receiver that held two
\* other keys and other bits.
MergeIsUnionWitness ==
  /\ ret.op = "Merge" /\ ret.err = "nil"
  /\ Cardinality(added["f"]) = 3
  /\ flt["f"].b.bits # flt["g"].b.bits
  /\ flt["g"].b.bits # {}
  /\ flt["f"].k >= 2

\* C15. Copy produces an independent filter: the copy has the m, the k and
\* the bits of the original, and afterwards an Add, TestAndAdd or ClearAll on
\* either of the two leaves the other one's bit array as it is, so that Test
\* on the other answers as before for every key.
CopyIsIndependent ==
  [][/\ ret'.op = "Copy" =>
          /\ flt'[ret'.id].m = flt[ret'.arg[1]].m
          /\ flt'[ret'.id].k = flt[ret'.arg[1]].k
          /\ flt'[ret'.id].b.bits = flt[ret'.arg[1]].b.bits
          /\ flt'[ret'.arg[1]] = flt[ret'.arg[1]]
     /\ (origin["g"] = "copy" /\ ret'.op \in {"Add", "TestAndAdd", "ClearAll"}) =>
          \A o \in Ids \ {ret'.id} :
            /\ flt'[o].b = flt[o].b
            /\ \A y \in Keys : TestCall(flt'[o], y).val = TestCall(flt[o], y).val]_vars

\* Add on the copy set bits for a key that the original, which holds
\* another key, does not hold.
CopyIsIndependentWitness ==
  /\ origin["g"] = "copy" /\ ret.op = "Add" /\ ret.id = "g"
  /\ flt["f"].b.bits # {}
  /\ flt["g"].b.bits # flt["f"].b.bits
  /\ ~TestCall(flt["f"], ret.arg).val

\* C16. ClearAll removes all keys: it sets every bit to 0 and leaves m and
\* k as they are, and right after it Test returns false for every key.
ClearAllRemovesAll ==
  (ret.op = "ClearAll" /\ origin[ret.id] = "new") =>
    /\ ret.err = "nil"
    /\ flt[ret.id].b.bits = {}
    /\ flt[ret.id].b.length = flt[ret.id].m
    /\ \A x \in Keys :
         ~TestCall(flt[ret.id], x).panic /\ ~TestCall(flt[ret.id], x).val

\* The part of C16 that holds: in a filter with k >= 1 and m >= 1.
ClearAllRemovesAllWhenValid ==
  (ret.op = "ClearAll" /\ origin[ret.id] = "new"
     /\ flt[ret.id].m >= 1 /\ flt[ret.id].k >= 1) =>
    /\ ret.err = "nil"
    /\ flt[ret.id].b.bits = {}
    /\ \A x \in Keys :
         ~TestCall(flt[ret.id], x).panic /\ ~TestCall(flt[ret.id], x).val

\* C17. EstimateFalsePositiveRate ends cleared: when it returns, every bit
\* of the filter is 0, whatever the filter held and whatever n, and m and k
\* are what they were.
EstimateEndsCleared ==
  [][(ret'.op = "EstimateFalsePositiveRate" /\ ret'.err = "nil") =>
       /\ flt'[ret'.id].b.bits = {}
       /\ flt'[ret'.id].b.length = flt[ret'.id].b.length
       /\ flt'[ret'.id].m = flt[ret'.id].m
       /\ flt'[ret'.id].k = flt[ret'.id].k]_vars

\* EstimateFalsePositiveRate returned after it added two keys or more and
\* found one of the keys it tested, in a filter with k >= 1.
EstimateEndsClearedWitness ==
  /\ ret.op = "EstimateFalsePositiveRate" /\ ret.err = "nil"
  /\ ret.arg[1] >= 2 /\ ret.arg[2] >= 1
  /\ flt[ret.id].k >= 1 /\ flt[ret.id].m >= 2

\* C18. Concurrent read-only queries succeed: when two goroutines call Test
\* on the same filter with no lock, each with a key that was added before
\* they started, and nothing mutates the filter, every such Test returns
\* true in every interleaving.
ConcurrentTestsSucceed ==
  \A t \in Threads : thr[t].pc = "done" => thr[t].val

\* The k indices of key x for m and k alone: those a filter fresh from
\* New(m, k) computes.
IndicesOf(x, m, k) == SubSeq(Locations(NewFilter(m, k), x).f.locBuff, 1, k)

\* C19. Location derivation is deterministic and history-independent: the k
\* indices a filter computes for a key depend on the key, m and k alone, not
\* on the keys hashed before nor on whether the filter was decoded, so that
\* a filter answers Test as any filter with the same m, k and bit array.
LocationsHistoryIndependent ==
  \A id \in Ids :
    (flt[id].m >= 1 /\ ~flt[id].b.nil) =>
      \A x \in Keys :
        LET l == Locations(flt[id], x)
            fresh == [NewFilter(flt[id].m, flt[id].k) EXCEPT !.b = flt[id].b]
        IN  /\ ~l.panic
            /\ SubSeq(l.f.locBuff, 1, flt[id].k) = IndicesOf(x, flt[id].m, flt[id].k)
            /\ TestCall(flt[id], x).val = TestCall(fresh, x).val

\* The part of C19 that holds: in filters that ReadFrom did not fill.
LocationsHistoryIndependentNotRead ==
  (\A id \in Ids : Len(flt[id].locBuff) = flt[id].k) => LocationsHistoryIndependent

\* C20. The i-th location is computed without overflow: for every i below k
\* the index a call used is (h1 + i*h2) mod m over the unbounded integers,
\* also where uint is as wide as the halves of the digest (GOARCH=386).
LocationsDoNotOverflow ==
  (ret.op \in {"Add", "Test", "TestAndAdd"} /\ ret.err = "nil") =>
    LET f == flt[ret.id]
        h == BaseHashes(f, ret.arg)
    IN  \A i \in 0..(f.k - 1) : f.locBuff[i + 1] = (h.a + h.b * i) % f.m

\* The part of C20 that holds: where uint is twice as wide (amd64).
LocationsDoNotOverflowOnAmd64 ==
  arch = "amd64" => LocationsDoNotOverflow

\* The 64-bit FNV digest of a key, as hash/fnv computes it from scratch.
Digest(x) == HasherWrite(FnvOffset, x)

\* C21. With h1 the upper half and h2 the lower half of the key's FNV digest,
\* the i-th location a call probes is (h1 + h2*i) mod m for every i below k,
\* from one hash computation per key.
LocationsUseUpperFirst ==
  (ret.op \in {"Add", "Test", "TestAndAdd"} /\ ret.err = "nil") =>
    LET f == flt[ret.id]
        h1 == Digest(ret.arg) \div HashMod
        h2 == Digest(ret.arg) % HashMod
    IN  /\ f.hasher = <<Digest(ret.arg)>>
        /\ \A i \in 0..(f.k - 1) : f.locBuff[i + 1] = (h1 + h2 * i) % f.m

\* What holds in place of C21: the lower half is the base and the upper half
\* the step, in uint arithmetic.
LocationsUseLowerFirst ==
  (ret.op \in {"Add", "Test", "TestAndAdd"} /\ ret.err = "nil") =>
    LET f == flt[ret.id]
        lower == Digest(ret.arg) % HashMod
        upper == Digest(ret.arg) \div HashMod
    IN  /\ f.hasher = <<Digest(ret.arg)>>
        /\ \A i \in 0..(f.k - 1) :
             f.locBuff[i + 1] = ((lower + upper * i) % UintMod) % f.m

\* C22. EstimateFalsePositiveRate(n), n >= 1, adds n keys, probes 2n keys
\* none of which was added, and returns positives / 2n, a value in [0, 1].
EstimateReturnsEmpiricalRate ==
  (ret.op = "EstimateFalsePositiveRate" /\ ret.err = "nil" /\ ret.arg[1] >= 1) =>
    LET n == ret.arg[1]
        fp == ret.arg[2]
        rounds == ret.arg[3]
        rate == ret.arg[4]
    IN  /\ rounds = 2 * n
        /\ \A i \in 0..(n - 1), j \in 0..(rounds - 1) : PutUint32(i) # PutUint32(j + n + 1)
        /\ rate[1] * rounds = fp * rate[2]
        /\ rate[1] <= rate[2]

\* What holds in place of C22: the count of positives among the 2n probes
\* is divided by 100 whatever n is.
EstimateReturnsCountOverHundred ==
  (ret.op = "EstimateFalsePositiveRate" /\ ret.err = "nil" /\ ret.arg[1] >= 1) =>
    /\ ret.arg[3] = 2 * ret.arg[1]
    /\ ret.arg[2] <= ret.arg[3]
    /\ ret.arg[4] = <<ret.arg[2], 100>>

\* ---------------------------------------------------------------------
\* Decoding inputs that no encoder wrote
\* ---------------------------------------------------------------------

\* A byte stream in the layout WriteTo writes: m, k, then a bit set of len
\* bits, none set.
StreamOf(m, k, len) ==
  BEBytes(m, Uint64Size) \o BEBytes(k, Uint64Size) \o BitSetWriteTo(BitSetNew(len))

\* A JSON object with the members in has; "b" is null or a bit set of len
\* bits.
DocOf(has, m, k, bnull, len) ==
  [valid |-> TRUE, has |-> has, m |-> Decimal(m), k |-> Decimal(k),
   bnull |-> bnull, b |-> IF bnull THEN <<>> ELSE BitSetWriteTo(BitSetNew(len))]

\* f.ReadFrom(stream) on a stream holding input.
ReadFromInput(id, input) ==
  /\ ~Panicked
  /\ LET r == ReadFromCall(flt[id], input)
     IN  /\ flt' = [flt EXCEPT ![id] = r.f]
         /\ ret' = Ret("ReadFrom", id, input, FALSE, r.n, r.err)
         /\ Decoded(id, r.err)
  /\ UNCHANGED <<arch, thr, wire>>

\* f.GobDecode(data).
GobDecodeInput(id, data) ==
  /\ ~Panicked
  /\ LET r == GobDecodeCall(flt[id], data)
     IN  /\ flt' = [flt EXCEPT ![id] = r.f]
         /\ ret' = Ret("GobDecode", id, data, FALSE, 0, r.err)
         /\ Decoded(id, r.err)
  /\ UNCHANGED <<arch, thr, wire>>

\* f.UnmarshalJSON(data) on the document doc.
UnmarshalJSONInput(id, doc) ==
  /\ ~Panicked
  /\ LET r == UnmarshalJSONCall(flt[id], doc)
     IN  /\ flt' = [flt EXCEPT ![id] = r.f]
         /\ ret' = Ret("UnmarshalJSON", id, doc, FALSE, 0, r.err)
         /\ Decoded(id, r.err)
  /\ UNCHANGED <<arch, thr, wire>>

\* The members a JSON input may carry.
DocMembers == {{"m", "k", "b"}, {"m", "k"}, {}}

NextInput ==
  \/ \E m \in 1..MaxM, k \in 1..MaxK : New("g", m, k)
  \/ \E m \in 0..MaxM, k \in 0..MaxK, len \in 0..MaxM :
       ReadFromInput("g", StreamOf(m, k, len))
  \/ \E m \in 0..MaxM, k \in 0..MaxK, len \in 0..MaxM :
       GobDecodeInput("g", StreamOf(m, k, len))
  \/ \E has \in DocMembers, m \in 0..MaxM, k \in 0..MaxK, bnull \in BOOLEAN, len \in 0..MaxM :
       UnmarshalJSONInput("g", DocOf(has, m, k, bnull, len))

SpecInput == Init /\ [][NextInput]_vars

\* C23. Every filter made by New or NewWithEstimates or by a successful
\* ReadFrom, GobDecode or UnmarshalJSON has m >= 1, k >= 1 and a non-nil bit
\* array of exactly m bits.
DataModelInvariant ==
  \A id \in Ids :
    origin[id] \in {"new", "decoded"} =>
      /\ flt[id].m >= 1
      /\ flt[id].k >= 1
      /\ ~flt[id].b.nil
      /\ flt[id].b.length = flt[id].m

\* What holds in place of C23: a decoder stores the m and k of its input
\* as they are, and the bit array of the input whatever its length.
DecodersStoreInput ==
  (ret.err = "nil" /\ ret.op \in {"ReadFrom", "GobDecode"}) =>
    \E m \in 0..MaxM, k \in 0..MaxK, len \in 0..MaxM :
      /\ ret.arg = StreamOf(m, k, len)
      /\ flt[ret.id].m = m
      /\ flt[ret.id].k = k
      /\ flt[ret.id].b = BitSetNew(len)

\* C24. When every Add, Test, TestAndAdd and ClearAll call on the shared
\* filter holds the one lock, at most one call is under way, and each call
\* that has finished left the filter and returned the value that the same
\* call leaves and returns when run alone on the filter it found; a Test of
\* a key added by a call that returned, with no ClearAll since, is true.
LockedCallsAreSequential ==
  /\ \A t, u \in Threads : (thr[t].lock /\ thr[u].lock) => t = u
  /\ \A t \in Threads :
       (thr[t].pc = "done" /\ thr[t].lock) =>
         LET s == thr[t].snap
             d == thr[t].data
         IN  CASE thr[t].op = "Add" ->
                    ~AddCall(s, d).panic /\ flt["f"] = AddCall(s, d).f
               [] thr[t].op = "Test" ->
                    /\ ~TestCall(s, d).panic
                    /\ flt["f"] = TestCall(s, d).f
                    /\ thr[t].val = TestCall(s, d).val
                    /\ d \in added["f"] => thr[t].val
               [] thr[t].op = "TestAndAdd" ->
                    /\ ~TestAndAddCall(s, d).panic
                    /\ flt["f"] = TestAndAddCall(s, d).f
                    /\ thr[t].val = TestAndAddCall(s, d).val
               [] OTHER ->
                    ~ClearAllCall(s).panic /\ flt["f"] = ClearAllCall(s).f

\* A Test of an added key has returned true under the lock while the other
\* goroutine waits for the lock with a ClearAll.
LockedCallsAreSequentialWitness ==
  /\ thr["t2"].pc = "done" /\ thr["t2"].lock /\ thr["t2"].op = "Test"
  /\ thr["t2"].data \in added["f"] /\ thr["t2"].val
  /\ flt["f"].k = MaxK
  /\ thr["t1"].pc = "wait" /\ thr["t1"].op = "ClearAll"

\* The calls C25 is about.
ProbingOps == {"Add", "Test", "TestAndAdd", "ClearAll", "EstimateFalsePositiveRate"}

\* C25. In a filter made by New with m >= 1, every Add, Test, TestAndAdd,
\* ClearAll and EstimateFalsePositiveRate call leaves m and k as they were
\* and the bit array at m bits with no bit set at m or beyond, and each of
\* the k indices computed for a key is below m.
IndicesStayInside ==
  [][\A id \in Ids :
       (origin[id] = "new" /\ flt[id].m >= 1
          /\ ret'.id = id /\ ret'.op \in ProbingOps /\ ret'.err = "nil") =>
         /\ flt'[id].m = flt[id].m
         /\ flt'[id].k = flt[id].k
         /\ flt'[id].b.length = flt[id].m
         /\ flt'[id].b.bits \subseteq 0..(flt[id].m - 1)
         /\ ret'.op \in {"Add", "Test", "TestAndAdd"} =>
              \A i \in 1..flt[id].k : flt'[id].locBuff[i] \in 0..(flt[id].m - 1)]_vars

\* An Add returned in a filter of MaxM bits and MaxK locations that holds two
\* keys; the last bit of the array is set and another is clear.
IndicesStayInsideWitness ==
  /\ ret.op = "Add" /\ ret.err = "nil" /\ origin[ret.id] = "new"
  /\ flt[ret.id].m = MaxM /\ flt[ret.id].k = MaxK
  /\ Cardinality(added[ret.id]) >= 2
  /\ (MaxM - 1) \in flt[ret.id].b.bits
  /\ flt[ret.id].b.bits # 0..(MaxM - 1)
  /\ flt[ret.id].b.length = MaxM

\* C26. The count WriteTo returns is the number of bytes it wrote to the
\* stream, also when the stream fails part-way: 8 when m was written and k
\* was not, 16 plus the part of the bit array written when that write fails.
WriteToCountsBytesWritten ==
  (ret.op = "WriteToFailWriter" /\ ret.err # "panic") => ret.n = ret.arg[2]

\* What holds in place of C26: the count is 0 when the write of m or of k
\* fails, and 16 plus the count of the bit array's WriteTo otherwise.
WriteToCountsZeroOnHeaderFailure ==
  (ret.op = "WriteToFailWriter" /\ ret.err # "panic") =>
    IF ret.arg[2] <= Uint64Size /\ ret.err # "nil" THEN ret.n = 0
    ELSE ret.n >= 2 * Uint64Size

====
